---- MODULE Spec2Model ----
(***************************************************************************)
(* Model of RotationCircuit (src/RotationCompiler.py): the lookup table of *)
(* multi-controlled rotations is compiled by a layered fold over the       *)
(* subset lattice, pruned greedily by an error or a Toffoli budget, and    *)
(* evaluated by summing the gates whose controls are contained in the      *)
(* input.  Rotation values are integers here; the target function is a    *)
(* cubic polynomial with integer coefficients.                             *)
(***************************************************************************)
EXTENDS Integers, Sequences, FiniteSets

VARIABLES
    bit_weigts,          \* self.bit_weigts: sequence of weights, index i at position i+1
    function,            \* self.function: coefficients <<a3, a2, a1, a0>> of the polynomial
    circuit,             \* self.circuit: insertion-ordered dict, a sequence of <<controls, value>>
    needs_recompilation, \* self.needs_recompilation
    toffoli_count,       \* self.toffoli_count
    ancilla_count,       \* self.ancilla_count
    lastOp,              \* the method that returned last
    lastArg,             \* its budget argument (0 when it takes none)
    calledOnPruned,      \* whether the table that call found lacked gates of the exact one
    work,                \* compile(): the layer dictionaries, as one list of <<controls, value>>
    layer,               \* compile(): the layer being folded
    progress,            \* compile(): per gate of the layer, how many gates above it are done
    pc                   \* compile(): "idle", "fold" or "done"

vars == <<bit_weigts, function, circuit, needs_recompilation, toffoli_count,
          ancilla_count, lastOp, lastArg, calledOnPruned, work, layer, progress, pc>>

foldVars == <<work, layer, progress, pc>>

----------------------------------------------------------------------------
\* Bounds of the model.

MaxN == 3          \* largest register size
MaxError == 4      \* error budgets range over -1 .. MaxError
MaxToffoli == 6    \* Toffoli budgets range over -1 .. MaxToffoli

\* The bit weights tried: negative, as the driver's first weight, and positive.
WeightValues == {-1, 2}
ErrorBudgets == (-1) .. MaxError
ToffoliBudgets == (-1) .. MaxToffoli

\* The target functions f(v) = a3*v^3 + a2*v^2 + a1*v + a0 handed to the constructor.
Functions ==
    { <<0, 0, 0, 1>>, <<0, 0, 1, 0>>, <<0, 1, 0, 0>>, <<1, 0, 0, 0>>, <<1, -3, 0, 1>> }

WeightVectors == UNION { [1 .. n -> WeightValues] : n \in 0 .. MaxN }

----------------------------------------------------------------------------
\* Helpers.

Abs(v) == IF v < 0 THEN -v ELSE v

Max2(a, b) == IF a >= b THEN a ELSE b

RECURSIVE SeqSum(_)
SeqSum(s) == IF s = <<>> THEN 0 ELSE Head(s) + SeqSum(Tail(s))

\* self.function(v)
Apply(fn, v) == fn[1] * v * v * v + fn[2] * v * v + fn[3] * v + fn[4]

\* compute_value_of: the sum of the weights of the bits of the input.
RECURSIVE compute_value_of(_, _)
compute_value_of(weights, input) ==
    IF input = {} THEN 0
    ELSE LET bit == CHOOSE b \in input : TRUE
         IN  weights[bit + 1] + compute_value_of(weights, input \ {bit})

\* itertools.combinations over the bits lo .. n-1, taken k at a time, in
\* lexicographic order, each as a frozenset.
RECURSIVE combinations(_, _, _)
combinations(lo, n, k) ==
    IF k = 0 THEN << {} >>
    ELSE IF lo >= n THEN << >>
    ELSE LET rest == combinations(lo + 1, n, k - 1)
         IN  [i \in 1 .. Len(rest) |-> {lo} \cup rest[i]] \o combinations(lo + 1, n, k)

\* possible_inputs: every subset of 0 .. n-1, by Hamming weight, then lexicographically.
RECURSIVE InputsFrom(_, _)
InputsFrom(n, hamming_weight) ==
    IF hamming_weight > n THEN << >>
    ELSE combinations(0, n, hamming_weight) \o InputsFrom(n, hamming_weight + 1)

possible_inputs(n) == InputsFrom(n, 0)

----------------------------------------------------------------------------
\* compile()

\* The layer dictionaries are kept as one list of <<controls, value>> in
\* insertion order; layer k is the gates with k controls, which possible_inputs
\* yields after those of layer k-1 and before those of layer k+1.

\* The lookup table before the fold: circuit[len(input)][input] = f(value(input)).
RECURSIVE LookupFrom(_, _, _, _)
LookupFrom(weights, fn, inputs, i) ==
    IF i > Len(inputs) THEN << >>
    ELSE << <<inputs[i], Apply(fn, compute_value_of(weights, inputs[i]))>> >>
             \o LookupFrom(weights, fn, inputs, i + 1)

LookupTable(weights, fn) == LookupFrom(weights, fn, possible_inputs(Len(weights)), 1)

\* A fold that takes gates of the same layer too (layer_above from layer, not layer+1).
IsAbove_SameLayer(lower, higher) ==
    Cardinality(higher) >= Cardinality(lower) /\ lower \subseteq higher

\* The gates a gate of a lower layer is subtracted from (the condition of the
\* two inner loops): the gates of the layers above that contain it.
IsAbove(lower, higher) ==
    Cardinality(higher) > Cardinality(lower) /\ lower \subseteq higher

\* A fold without the issubset test: subtracts from every gate of the layers above.
FoldGate_NoSubsetTest(table, lower, rotation_value) ==
    [i \in 1 .. Len(table) |->
        IF Cardinality(table[i][1]) > Cardinality(lower)
        THEN <<table[i][1], table[i][2] - rotation_value>>
        ELSE table[i]]

\* The two inner loops for one gate of the lower layer: its rotation value is
\* subtracted from every gate above it.
FoldGate(table, lower, rotation_value) ==
    [i \in 1 .. Len(table) |->
        IF IsAbove(lower, table[i][1])
        THEN <<table[i][1], table[i][2] - rotation_value>>
        ELSE table[i]]

\* The outer loops: layers 0 .. n-1 in turn, the gates of a layer in dict order,
\* each with the value it has when its turn comes.
RECURSIVE FoldFrom(_, _, _)
FoldFrom(table, i, n) ==
    IF i > Len(table) THEN table
    ELSE IF Cardinality(table[i][1]) >= n THEN FoldFrom(table, i + 1, n)
    ELSE FoldFrom(FoldGate(table, table[i][1], table[i][2]), i + 1, n)

\* Reassembling the layers into one dict, layer by layer: a later layer never
\* holds a key of an earlier one, so update() appends.
RECURSIVE Reassemble(_, _)
Reassemble(table, k) ==
    IF table = << >> THEN << >>
    ELSE LET IsLayer(gate) == Cardinality(gate[1]) = k
             NotLayer(gate) == Cardinality(gate[1]) # k
         IN  SelectSeq(table, IsLayer) \o Reassemble(SelectSeq(table, NotLayer), k + 1)

compile(weights, fn) == Reassemble(FoldFrom(LookupTable(weights, fn), 1, Len(weights)), 0)

----------------------------------------------------------------------------
\* update_circuit_size()

\* The gate cost without the floor at 0.
GateToffoliCount_NoFloor(controls) == 2 * (Cardinality(controls) - 1)

GateToffoliCount(controls) == Max2(2 * (Cardinality(controls) - 1), 0)

ToffoliCountOf(c) == SeqSum([i \in 1 .. Len(c) |-> GateToffoliCount(c[i][1])])

RECURSIVE SeqMax(_)
SeqMax(s) == IF Len(s) = 1 THEN s[1] ELSE Max2(Head(s), SeqMax(Tail(s)))

AncillaCountOf(c) == Max2(SeqMax([i \in 1 .. Len(c) |-> Cardinality(c[i][1])]) - 1, 0)

----------------------------------------------------------------------------
\* evaluate_at()

evaluate_at(c, x) ==
    SeqSum([i \in 1 .. Len(c) |-> IF c[i][1] \subseteq x THEN c[i][2] ELSE 0])

----------------------------------------------------------------------------
\* The two approximations.

\* Pruning without the recompilation guard.
TableToPrune_NoGuard(c, flag, weights, fn) == c

\* if self.needs_recompilation: self.compile()
TableToPrune(c, flag, weights, fn) == IF flag THEN compile(weights, fn) ELSE c

\* A partition that takes only the uncontrolled gate as cheap.
IsCheap_OnlyEmpty(gate) == Cardinality(gate[1]) < 1

IsCheap(gate) == Cardinality(gate[1]) < 2

IsExpensive(gate) == Cardinality(gate[1]) >= 2

cheap_gates(c) == SelectSeq(c, IsCheap)

expensive_gates(c) == SelectSeq(c, IsExpensive)

\* The sort key is abs(value / (2*(len(controls)-1))).  Both divisors are
\* positive, so two keys compare as the cross products of |value| and cost.
RatioLess(g, h) ==
    Abs(g[2]) * (2 * (Cardinality(h[1]) - 1)) < Abs(h[2]) * (2 * (Cardinality(g[1]) - 1))

\* sorted() is stable, with reverse=True too: gates of equal key keep dict order.
Precedes(g, h, reverse) == IF reverse THEN RatioLess(h, g) ELSE RatioLess(g, h)

RECURSIVE InsertGate(_, _, _)
InsertGate(s, g, reverse) ==
    IF s = << >> THEN << g >>
    ELSE IF Precedes(g, Head(s), reverse) THEN << g >> \o s
    ELSE << Head(s) >> \o InsertGate(Tail(s), g, reverse)

RECURSIVE SortFrom(_, _, _, _)
SortFrom(done, gates, i, reverse) ==
    IF i > Len(gates) THEN done
    ELSE SortFrom(InsertGate(done, gates[i], reverse), gates, i + 1, reverse)

sorted(gates, reverse) == SortFrom(<< >>, gates, 1, reverse)

\* A scan that tests each gate's own cost and forgets the running count.
RECURSIVE ToffoliScan_NoRunningCount(_, _, _, _)
ToffoliScan_NoRunningCount(approximate_circuit, pos, current_toffoli_count, maximum_toffoli_count) ==
    IF pos >= Len(approximate_circuit) THEN pos
    ELSE IF 2 * (Cardinality(approximate_circuit[pos + 1][1]) - 1) > maximum_toffoli_count
         THEN pos
         ELSE ToffoliScan_NoRunningCount(approximate_circuit, pos + 1,
                                         current_toffoli_count, maximum_toffoli_count)

\* The while loop of approximate_up_to_toffoli_count_of: the final position.
RECURSIVE ToffoliScan(_, _, _, _)
ToffoliScan(approximate_circuit, pos, current_toffoli_count, maximum_toffoli_count) ==
    IF pos >= Len(approximate_circuit) THEN pos
    ELSE LET current_gate_toffoli_count ==
                 2 * (Cardinality(approximate_circuit[pos + 1][1]) - 1)
         IN  IF current_toffoli_count + current_gate_toffoli_count > maximum_toffoli_count
             THEN pos
             ELSE ToffoliScan(approximate_circuit, pos + 1,
                              current_toffoli_count + current_gate_toffoli_count,
                              maximum_toffoli_count)

\* A scan that skips a gate that does not fit and goes on to the later ones.
RECURSIVE SkipAheadScan(_, _, _)
SkipAheadScan(approximate_circuit, current_toffoli_count, maximum_toffoli_count) ==
    IF approximate_circuit = << >> THEN << >>
    ELSE LET current_gate_toffoli_count == 2 * (Cardinality(approximate_circuit[1][1]) - 1)
         IN  IF current_toffoli_count + current_gate_toffoli_count > maximum_toffoli_count
             THEN SkipAheadScan(Tail(approximate_circuit), current_toffoli_count,
                                maximum_toffoli_count)
             ELSE << approximate_circuit[1] >> \o
                  SkipAheadScan(Tail(approximate_circuit),
                                current_toffoli_count + current_gate_toffoli_count,
                                maximum_toffoli_count)

approximate_up_to_toffoli_count_of_SkipAhead(c, maximum_toffoli_count) ==
    cheap_gates(c) \o SkipAheadScan(sorted(expensive_gates(c), TRUE), 0, maximum_toffoli_count)

\* approximate_up_to_toffoli_count_of, from the table it prunes to the table it stores.
approximate_up_to_toffoli_count_of(c, maximum_toffoli_count) ==
    LET approximate_circuit == sorted(expensive_gates(c), TRUE)
        pos == ToffoliScan(approximate_circuit, 0, 0, maximum_toffoli_count)
    IN  cheap_gates(c) \o SubSeq(approximate_circuit, 1, pos)

\* A scan that tests each gate's own error and forgets the accumulated one.
RECURSIVE ErrorScan_NoAccumulation(_, _, _)
ErrorScan_NoAccumulation(approximate_circuit, current_error, error_upper_bound) ==
    IF approximate_circuit = << >> THEN approximate_circuit
    ELSE IF Abs(approximate_circuit[1][2]) <= error_upper_bound
         THEN ErrorScan_NoAccumulation(Tail(approximate_circuit), current_error,
                                       error_upper_bound)
         ELSE approximate_circuit

\* The while loop of approximate_up_to_an_error_of: what is left of the list.
RECURSIVE ErrorScan(_, _, _)
ErrorScan(approximate_circuit, current_error, error_upper_bound) ==
    IF approximate_circuit = << >> THEN approximate_circuit
    ELSE LET error_contribution == Abs(approximate_circuit[1][2])
         IN  IF error_contribution + current_error <= error_upper_bound
             THEN ErrorScan(Tail(approximate_circuit), current_error + error_contribution,
                            error_upper_bound)
             ELSE approximate_circuit

\* approximate_up_to_an_error_of, from the table it prunes to the table it stores.
approximate_up_to_an_error_of(c, error_upper_bound) ==
    cheap_gates(c) \o ErrorScan(sorted(expensive_gates(c), FALSE), 0, error_upper_bound)

----------------------------------------------------------------------------
\* compute_error_statistics(): the scan over all inputs, kept exact by
\* returning the accumulated error and the number of inputs instead of
\* their quotient.
RECURSIVE ErrorStatisticsFrom(_, _, _, _, _)
ErrorStatisticsFrom(c, weights, fn, inputs, acc) ==
    IF inputs = << >> THEN acc
    ELSE LET input == Head(inputs)
             final_rotation == evaluate_at(c, input)
             reference_input == compute_value_of(weights, input)
             current_error == Abs(final_rotation - Apply(fn, reference_input))
             larger == current_error > acc.largest_error_so_far
         IN  ErrorStatisticsFrom(c, weights, fn, Tail(inputs),
                 [accumulated_error |-> acc.accumulated_error + current_error,
                  largest_error_so_far |->
                      IF larger THEN current_error ELSE acc.largest_error_so_far,
                  at_input |-> IF larger THEN input ELSE acc.at_input,
                  number_of_inputs |-> acc.number_of_inputs + 1])

compute_error_statistics(c, weights, fn) ==
    ErrorStatisticsFrom(c, weights, fn, possible_inputs(Len(weights)),
        [accumulated_error |-> 0, largest_error_so_far |-> 0, at_input |-> {},
         number_of_inputs |-> 0])

----------------------------------------------------------------------------
Init ==
    /\ bit_weigts \in WeightVectors
    /\ function \in Functions
    /\ circuit = compile(bit_weigts, function)
    /\ needs_recompilation = FALSE
    /\ toffoli_count = ToffoliCountOf(circuit)
    /\ ancilla_count = AncillaCountOf(circuit)
    /\ lastOp = "init"
    /\ lastArg = 0
    /\ calledOnPruned = FALSE
    /\ work = << >>
    /\ layer = 0
    /\ progress = << >>
    /\ pc = "idle"

Compile ==
    /\ pc = "idle"
    /\ circuit' = compile(bit_weigts, function)
    /\ toffoli_count' = ToffoliCountOf(circuit')
    /\ ancilla_count' = AncillaCountOf(circuit')
    /\ lastOp' = "compile"
    /\ lastArg' = 0
    /\ calledOnPruned' = (Len(circuit) < 2 ^ Len(bit_weigts))
    /\ UNCHANGED <<bit_weigts, function, needs_recompilation, foldVars>>

ApproximateUpToToffoliCountOf(maximum_toffoli_count) ==
    /\ pc = "idle"
    /\ circuit' = approximate_up_to_toffoli_count_of(
                      TableToPrune(circuit, needs_recompilation, bit_weigts, function),
                      maximum_toffoli_count)
    /\ toffoli_count' = ToffoliCountOf(circuit')
    /\ ancilla_count' = AncillaCountOf(circuit')
    /\ needs_recompilation' = TRUE
    /\ lastOp' = "toffoli"
    /\ lastArg' = maximum_toffoli_count
    /\ calledOnPruned' = (Len(circuit) < 2 ^ Len(bit_weigts))
    /\ UNCHANGED <<bit_weigts, function, foldVars>>

ApproximateUpToAnErrorOf(error_upper_bound) ==
    /\ pc = "idle"
    /\ circuit' = approximate_up_to_an_error_of(
                      TableToPrune(circuit, needs_recompilation, bit_weigts, function),
                      error_upper_bound)
    /\ toffoli_count' = ToffoliCountOf(circuit')
    /\ ancilla_count' = AncillaCountOf(circuit')
    /\ needs_recompilation' = TRUE
    /\ lastOp' = "error"
    /\ lastArg' = error_upper_bound
    /\ calledOnPruned' = (Len(circuit) < 2 ^ Len(bit_weigts))
    /\ UNCHANGED <<bit_weigts, function, foldVars>>

Next ==
    \/ Compile
    \/ \E maximum_toffoli_count \in ToffoliBudgets :
           ApproximateUpToToffoliCountOf(maximum_toffoli_count)
    \/ \E error_upper_bound \in ErrorBudgets :
           ApproximateUpToAnErrorOf(error_upper_bound)

Spec == Init /\ [][Next]_vars

----------------------------------------------------------------------------
\* compile() step by step, as run by the constructor: one action per
\* subtraction of the innermost loop.  Every gate of the layer being folded
\* walks the gates above it in loop order; the gates of one layer take their
\* steps in any order and interleaving, and a layer starts only when the
\* layer below it is finished.

\* The driver's weights 0.5^i with the first one negated, scaled to integers.
DriverWeights(n) == [i \in 1 .. n |-> IF i = 1 THEN -(2 ^ (n - 1)) ELSE 2 ^ (n - i)]

FoldWeightVectors ==
    { DriverWeights(n) : n \in 0 .. MaxN } \cup { [i \in 1 .. n |-> i] : n \in 0 .. MaxN }

RegisterBits == 0 .. Len(bit_weigts) - 1

LayerGates(k) == { S \in SUBSET RegisterBits : Cardinality(S) = k }

\* The position of a gate in a table.
IndexOf(c, controls) == CHOOSE i \in 1 .. Len(c) : c[i][1] = controls

\* The gates the two inner loops visit for one gate of the lower layer, in
\* loop order, as positions in the table.
RECURSIVE GatesAboveFrom(_, _, _)
GatesAboveFrom(lower, table, i) ==
    IF i > Len(table) THEN << >>
    ELSE (IF IsAbove(lower, table[i][1]) THEN << i >> ELSE << >>)
             \o GatesAboveFrom(lower, table, i + 1)

GatesAbove(lower) == GatesAboveFrom(lower, work, 1)

LayerFolded == \A S \in LayerGates(layer) : progress[S] = Len(GatesAbove(S))

InitFold ==
    /\ bit_weigts \in FoldWeightVectors
    /\ function \in Functions
    /\ circuit = << >>
    /\ needs_recompilation = FALSE
    /\ toffoli_count = 0
    /\ ancilla_count = 0
    /\ lastOp = "none"
    /\ lastArg = 0
    /\ calledOnPruned = FALSE
    /\ work = LookupTable(bit_weigts, function)
    /\ layer = 0
    /\ progress = [S \in LayerGates(0) |-> 0]
    /\ pc = "fold"

\* circuit[layer_above][control_qubits_in_higher_layer] -= rotation_value.
\* The rotation value is read at the step; the loop reads it when the gate's
\* turn begins, and C9 shows that no step of the layer changes it in between.
FoldStep(lower) ==
    /\ pc = "fold"
    /\ layer < Len(bit_weigts)
    /\ progress[lower] < Len(GatesAbove(lower))
    /\ LET higher == GatesAbove(lower)[progress[lower] + 1]
           rotation_value == work[IndexOf(work, lower)][2]
       IN  work' = [work EXCEPT ![higher][2] = @ - rotation_value]
    /\ progress' = [progress EXCEPT ![lower] = @ + 1]
    /\ UNCHANGED <<bit_weigts, function, circuit, needs_recompilation, toffoli_count,
                   ancilla_count, lastOp, lastArg, calledOnPruned, layer, pc>>

\* for layer in range(len(circuit)-1): the next iteration
NextLayer ==
    /\ pc = "fold"
    /\ layer + 1 < Len(bit_weigts)
    /\ LayerFolded
    /\ layer' = layer + 1
    /\ progress' = [S \in LayerGates(layer + 1) |-> 0]
    /\ UNCHANGED <<bit_weigts, function, circuit, needs_recompilation, toffoli_count,
                   ancilla_count, lastOp, lastArg, calledOnPruned, work, pc>>

\* The end of compile(): reassemble, store and measure the circuit.
FoldFinish ==
    /\ pc = "fold"
    /\ layer + 1 >= Len(bit_weigts)
    /\ layer < Len(bit_weigts) => LayerFolded
    /\ circuit' = Reassemble(work, 0)
    /\ toffoli_count' = ToffoliCountOf(circuit')
    /\ ancilla_count' = AncillaCountOf(circuit')
    /\ lastOp' = "init"
    /\ pc' = "done"
    /\ UNCHANGED <<bit_weigts, function, needs_recompilation, lastArg, calledOnPruned, work,
                   layer, progress>>

NextFold ==
    \/ \E lower \in LayerGates(layer) : FoldStep(lower)
    \/ NextLayer
    \/ FoldFinish

SpecFold == InitFold /\ [][NextFold]_vars

----------------------------------------------------------------------------
\* Properties.

Inputs == SUBSET RegisterBits

\* The sum of g[e] over the elements e of a finite set.
RECURSIVE SetSum(_, _)
SetSum(S, g) ==
    IF S = {} THEN 0
    ELSE LET e == CHOOSE e \in S : TRUE IN g[e] + SetSum(S \ {e}, g)

TargetValue(x) == Apply(function, compute_value_of(bit_weigts, x))

Keys(c) == { c[i][1] : i \in 1 .. Len(c) }

IsDict(c) == Cardinality(Keys(c)) = Len(c)

\* The table of a freshly constructed engine with the same weights and function.
ExactTable == compile(bit_weigts, function)

Cost(S) == IF Cardinality(S) < 2 THEN 0 ELSE 2 * (Cardinality(S) - 1)

Pruned == lastOp \in {"error", "toffoli"}

\* C1: right after construction or compile(), the table has all 2^n entries and
\* evaluate_at(x) returns f(value(x)) for every subset x of the register; with
\* n = 0 the table is the single entry {} -> f(0).
C1_Exactness ==
    lastOp \in {"init", "compile"} =>
        /\ Keys(circuit) = Inputs
        /\ IsDict(circuit)
        /\ \A x \in Inputs : evaluate_at(circuit, x) = TargetValue(x)
        /\ Len(bit_weigts) = 0 => circuit = << <<{}, Apply(function, 0)>> >>

\* A compile() after a pruning call, on three bits, with a nonzero rotation on
\* the gate controlled by all of them.
C1_Witness ==
    /\ lastOp = "compile"
    /\ calledOnPruned
    /\ Len(bit_weigts) = 3
    /\ \E i \in 1 .. Len(circuit) : Cardinality(circuit[i][1]) = 3 /\ circuit[i][2] # 0

\* C2: the table a pruning call leaves is the table the same call with the same
\* budget leaves on a freshly constructed engine, whatever was called before.
C2_PruneRelativeToExact ==
    LET fresh == compile(bit_weigts, function)
    IN  /\ lastOp = "error" => circuit = approximate_up_to_an_error_of(fresh, lastArg)
        /\ lastOp = "toffoli" => circuit = approximate_up_to_toffoli_count_of(fresh, lastArg)

\* An error-budgeted pruning, called on a table that lacked gates, that leaves
\* all eight gates of three bits, none of the costly ones zero.
C2_Witness ==
    /\ lastOp = "error"
    /\ calledOnPruned
    /\ lastArg >= 0
    /\ Len(bit_weigts) = 3
    /\ Len(circuit) = 8
    /\ \A i \in 1 .. Len(circuit) : Cardinality(circuit[i][1]) >= 2 => circuit[i][2] # 0

\* C3: after construction and after every compile() the table is the full exact
\* one and needs_recompilation is False; after every pruning call it is True.
C3_FlagFollowsLastCall ==
    /\ lastOp \in {"init", "compile"} =>
           /\ needs_recompilation = FALSE
           /\ Keys(circuit) = Inputs
    /\ Pruned => needs_recompilation = TRUE

\* The sum of the absolute coefficients of the exact gates a table lacks.
RemovedSum(c) ==
    LET exact == ExactTable
    IN  SetSum(1 .. Len(exact),
               [i \in 1 .. Len(exact) |->
                   IF exact[i][1] \in Keys(c) THEN 0 ELSE Abs(exact[i][2])])

\* C4: after approximate_up_to_an_error_of(eps) with eps >= 0 the absolute
\* coefficients of the omitted gates sum to at most eps, every input is off by
\* at most that sum, and the largest error of compute_error_statistics() is
\* at most eps.
C4_ErrorBudgetBound ==
    (lastOp = "error" /\ lastArg >= 0) =>
        LET removed == RemovedSum(circuit)
        IN  /\ removed <= lastArg
            /\ \A x \in Inputs : Abs(evaluate_at(circuit, x) - TargetValue(x)) <= removed
            /\ compute_error_statistics(circuit, bit_weigts, function).largest_error_so_far
                   <= lastArg

\* An error-budgeted pruning that omitted gates of nonzero rotation, kept
\* others, and left some input with an error.
C4_Witness ==
    /\ lastOp = "error"
    /\ lastArg >= 0
    /\ RemovedSum(circuit) > 0
    /\ \E i \in 1 .. Len(circuit) : Cardinality(circuit[i][1]) >= 2
    /\ compute_error_statistics(circuit, bit_weigts, function).largest_error_so_far > 0

\* C5: after approximate_up_to_toffoli_count_of(maxCost) with maxCost >= 0 the
\* reported toffoli_count is at most maxCost; with maxCost = 0 the table
\* holds exactly the gates with fewer than two controls.
C5_CostBudgetBound ==
    (lastOp = "toffoli" /\ lastArg >= 0) =>
        /\ toffoli_count <= lastArg
        /\ lastArg = 0 =>
               /\ Keys(circuit) = { S \in Inputs : Cardinality(S) < 2 }
               /\ IsDict(circuit)

\* A Toffoli-budgeted pruning, called on an already pruned engine, that used
\* its whole budget and dropped gates.
C5_Witness ==
    /\ lastOp = "toffoli"
    /\ calledOnPruned
    /\ lastArg >= 2
    /\ toffoli_count = lastArg
    /\ Len(circuit) < 2 ^ Len(bit_weigts)
    /\ LET exact == ExactTable
       IN  \A i \in 1 .. Len(exact) : Cardinality(exact[i][1]) >= 2 => exact[i][2] # 0

\* C6: every table holds each gate with fewer than two controls, once, with
\* the rotation it has in the exact table.
C6_CheapEntriesKept ==
    LET exact == ExactTable
    IN  \A S \in { T \in Inputs : Cardinality(T) < 2 } :
            /\ Cardinality({ i \in 1 .. Len(circuit) : circuit[i][1] = S }) = 1
            /\ \E i \in 1 .. Len(circuit) :
                   /\ circuit[i][1] = S
                   /\ \E j \in 1 .. Len(exact) : exact[j] = circuit[i]

\* A second pruning call in a row that dropped every gate with two or more controls.
C6_Witness ==
    /\ Pruned
    /\ calledOnPruned
    /\ lastArg >= 0
    /\ Len(bit_weigts) >= 2
    /\ Len(circuit) = Len(bit_weigts) + 1
    /\ LET exact == ExactTable IN \A i \in 1 .. Len(exact) : exact[i][2] # 0

\* C7: a negative budget leaves the table a zero budget leaves.
C7_NegativeBudgetAsZero ==
    /\ (lastOp = "error" /\ lastArg < 0) =>
           circuit = approximate_up_to_an_error_of(ExactTable, 0)
    /\ (lastOp = "toffoli" /\ lastArg < 0) =>
           circuit = approximate_up_to_toffoli_count_of(ExactTable, 0)

\* The largest element of a nonempty finite set of integers.
SetMax(S) == CHOOSE m \in S : \A e \in S : e <= m

\* C8: toffoli_count is the sum of cost(S) over the gates of the current table
\* and ancilla_count the largest max(|S|-1, 0) among them.
C8_SizeMetricsCurrent ==
    /\ IsDict(circuit)
    /\ toffoli_count = SetSum(Keys(circuit), [S \in Keys(circuit) |-> Cost(S)])
    /\ ancilla_count =
           SetMax({ IF Cardinality(S) >= 1 THEN Cardinality(S) - 1 ELSE 0 : S \in Keys(circuit) })

\* A pruning call that lowered both metrics without bringing them to zero.
C8_Witness ==
    /\ Pruned
    /\ 0 < toffoli_count
    /\ toffoli_count < ToffoliCountOf(ExactTable)
    /\ 0 < ancilla_count
    /\ ancilla_count < AncillaCountOf(ExactTable)

\* The Moebius inversion of the target function over the subsets of S.
Moebius(S) ==
    SetSum(SUBSET S,
           [T \in SUBSET S |->
               (IF (Cardinality(S) - Cardinality(T)) % 2 = 0 THEN 1 ELSE -1)
                   * TargetValue(T)])

\* C9: with the layers folded in increasing cardinality, every order and
\* interleaving of the subtractions of one layer ends with the same
\* coefficients (the Moebius inversion of f), and folding a gate of layer k
\* never changes a gate of layer k or of a layer below it.
C9_OrderIndependence ==
    /\ [](pc = "done" =>
             /\ Keys(circuit) = Inputs
             /\ \A i \in 1 .. Len(circuit) : circuit[i][2] = Moebius(circuit[i][1]))
    /\ [][pc = "fold" =>
              \A i \in 1 .. Len(work) :
                  Cardinality(work[i][1]) <= layer => work'[i] = work[i]]_vars

\* Two gates of one layer, each part of the way through the gates above it.
C9_Witness ==
    /\ pc = "fold"
    /\ \E S, T \in LayerGates(layer) :
           /\ S # T
           /\ 0 < progress[S] /\ progress[S] < Len(GatesAbove(S))
           /\ 0 < progress[T] /\ progress[T] < Len(GatesAbove(T))
           /\ work[IndexOf(work, S)][2] # 0
           /\ work[IndexOf(work, T)][2] # 0

\* The Toffoli count of the first p gates of a list.
PrefixCost(gates, p) == SetSum(1 .. p, [i \in 1 .. p |-> Cost(gates[i][1])])

\* No gate of the list has a smaller |rotation|/cost than a later one.
IsDescending(gates) ==
    \A i, j \in 1 .. Len(gates) : i < j => ~RatioLess(gates[i], gates[j])

\* The gates with two or more controls of the exact table, best ratio first.
RankedGates == sorted(expensive_gates(ExactTable), TRUE)

\* The length of the longest prefix of a list of gates that costs at most maxCost.
LongestPrefix(gates, maxCost) ==
    SetMax({ p \in 0 .. Len(gates) : PrefixCost(gates, p) <= maxCost })

\* C10: approximate_up_to_toffoli_count_of(maxCost) keeps, of the gates with
\* two or more controls in descending |rotation|/cost, exactly the longest
\* prefix that costs at most maxCost, and nothing after it.
C10_EarlyStop ==
    (lastOp = "toffoli" /\ lastArg >= 0) =>
        LET ranked == RankedGates
        IN  /\ IsDescending(ranked)
            /\ Keys(ranked) = { S \in Inputs : Cardinality(S) >= 2 }
            /\ expensive_gates(circuit) = SubSeq(ranked, 1, LongestPrefix(ranked, lastArg))

\* A scan that stopped at a gate that did not fit although a later gate of
\* the ranking would still have fitted in what was left of the budget.
C10_Witness ==
    /\ lastOp = "toffoli"
    /\ lastArg >= 0
    /\ LET ranked == RankedGates
           kept == LongestPrefix(ranked, lastArg)
       IN  \E i \in 1 .. Len(ranked) :
               /\ i > kept + 1
               /\ PrefixCost(ranked, kept) + Cost(ranked[i][1]) <= lastArg
====
